---- MODULE Spec2Model ----
(***************************************************************************)
(* A model of bigs, the BIpartite Graph Sampler: the Graph structure       *)
(* (bigs/src/graph.rs), the Builder and its validation                     *)
(* (bigs/src/builder.rs, bigs/src/error.rs), the Sampler accessors and the *)
(* Sample engine (src/sampler.rs).                                         *)
(*                                                                         *)
(* Labels are 0-based as in the code; TLA+ sequences are 1-based, so the   *)
(* neighbour set of label v is the element v + 1 of a neighbour sequence.  *)
(* An IndexSet is modelled by the sequence of its entries (distinct        *)
(* elements, in the order the set enumerates them).  An Option is the      *)
(* sequence of its value: << >> is None and << x >> is Some(x).            *)
(***************************************************************************)
EXTENDS Integers, Sequences, FiniteSets, TLC

(***************************************************************************)
(* Bounds of the model.                                                    *)
(***************************************************************************)
\* largest number of variables / constraints of a sampled graph
MaxNodes == 3
\* largest degree of a sampled graph
MaxDegree == 3
\* largest number of stubs per side of a sampling run
MaxEdges == 6
\* largest label used when a graph is assembled by hand
MaxLabel == 1
\* largest number of edges of a graph assembled by hand
MaxManualEdges == 3
\* width of the machine word (usize) in bits
WordBits == 4
\* largest scaling factor given to the accessors of a scaled Sampler
MaxScaling == 4

\* largest number of variables / constraints of a graph sampled by one of
\* two interleaved calls
MaxInterleavedNodes == 2
\* largest number of stubs per side of one of two interleaved calls
MaxInterleavedEdges == 4

RECURSIVE Pow2(_)
Pow2(n) == IF n = 0 THEN 1 ELSE 2 * Pow2(n - 1)

\* usize::MAX + 1
Modulus == Pow2(WordBits)

Min(S) == CHOOSE x \in S : \A y \in S : x <= y

Max(S) == CHOOSE x \in S : \A y \in S : x >= y

Range(s) == {s[i] : i \in 1..Len(s)}

Count(s, x) == Cardinality({i \in 1..Len(s) : s[i] = x})

(***************************************************************************)
(* Edge (bigs/src/graph.rs).                                               *)
(***************************************************************************)
Edge(v, c) == [variable |-> v, constraint |-> c]

(***************************************************************************)
(* IndexSet (the indexmap crate), as bigs/src/graph.rs uses it.            *)
(***************************************************************************)
IndexSet_new == << >>

\* a lookup that misses the first entry
IndexSet_contains_from_second(s, x) == \E i \in 2..Len(s) : s[i] = x

IndexSet_contains(s, x) == \E i \in 1..Len(s) : s[i] = x

IndexSet_len(s) == Len(s)

\* an insert that does not look the value up
IndexSet_insert_appending(s, x) == [set |-> Append(s, x), returned |-> TRUE]

\* insert: appends a value that is not in the set; the returned flag tells
\* whether the value was newly inserted
IndexSet_insert(s, x) ==
    IF IndexSet_contains(s, x)
    THEN [set |-> s, returned |-> FALSE]
    ELSE [set |-> Append(s, x), returned |-> TRUE]

\* a remove that pops the last entry whenever the value is in the set
IndexSet_remove_last(s, x) ==
    IF IndexSet_contains(s, x)
    THEN [set |-> SubSeq(s, 1, Len(s) - 1), returned |-> TRUE]
    ELSE [set |-> s, returned |-> FALSE]

\* remove is swap_remove: the last entry takes the place of the removed one
IndexSet_remove(s, x) ==
    IF IndexSet_contains(s, x)
    THEN LET i == CHOOSE j \in 1..Len(s) : s[j] = x
             n == Len(s)
             front == SubSeq(s, 1, n - 1)
         IN  [set |-> IF i = n THEN front ELSE [front EXCEPT ![i] = s[n]],
              returned |-> TRUE]
    ELSE [set |-> s, returned |-> FALSE]

\* PartialEq of IndexSet: same length and every value of one is in the other
IndexSet_eq(s, t) ==
    /\ Len(s) = Len(t)
    /\ \A i \in 1..Len(s) : IndexSet_contains(t, s[i])

(***************************************************************************)
(* Graph (bigs/src/graph.rs).  hash_builder is the RandomState the edge    *)
(* set was created with; no operation of IndexSet lets it decide an order. *)
(***************************************************************************)
Graph_new(seed) ==
    [variable_neighbors |-> << >>,
     constraint_neighbors |-> << >>,
     edges |-> IndexSet_new,
     hash_builder |-> seed]

contains_edge(g, edge) == IndexSet_contains(g.edges, edge)

number_of_variables(g) == Len(g.variable_neighbors)

number_of_constraints(g) == Len(g.constraint_neighbors)

number_of_edges(g) == IndexSet_len(g.edges)

\* vec![IndexSet::new(); n]
EmptySets(n) == IF n = 0 THEN << >> ELSE [i \in 1..n |-> IndexSet_new]

\* a growth that creates one slot more than the label needs
insert_variable_growing_past_label(g, edge) ==
    LET grown == IF edge.variable >= number_of_variables(g)
                 THEN g.variable_neighbors
                      \o EmptySets(edge.variable - number_of_variables(g) + 2)
                 ELSE g.variable_neighbors
    IN  [g EXCEPT !.variable_neighbors =
            [grown EXCEPT ![edge.variable + 1] =
                IndexSet_insert(grown[edge.variable + 1], edge.constraint).set]]

insert_variable(g, edge) ==
    LET grown == IF edge.variable >= number_of_variables(g)
                 THEN g.variable_neighbors
                      \o EmptySets(edge.variable - number_of_variables(g) + 1)
                 ELSE g.variable_neighbors
    IN  [g EXCEPT !.variable_neighbors =
            [grown EXCEPT ![edge.variable + 1] =
                IndexSet_insert(grown[edge.variable + 1], edge.constraint).set]]

insert_constraint(g, edge) ==
    LET grown == IF edge.constraint >= number_of_constraints(g)
                 THEN g.constraint_neighbors
                      \o EmptySets(edge.constraint - number_of_constraints(g) + 1)
                 ELSE g.constraint_neighbors
    IN  [g EXCEPT !.constraint_neighbors =
            [grown EXCEPT ![edge.constraint + 1] =
                IndexSet_insert(grown[edge.constraint + 1], edge.variable).set]]

insert_edge(g, edge) ==
    LET ins == IndexSet_insert(g.edges, edge)
    IN  IF ins.returned
        THEN [graph |-> insert_constraint(
                            insert_variable([g EXCEPT !.edges = ins.set], edge),
                            edge),
              returned |-> TRUE]
        ELSE [graph |-> g, returned |-> FALSE]

\* a removal that indexes the neighbour sequences before it looks the edge
\* up in the edge set
remove_edge_unchecked(g, edge) ==
    LET rem == IndexSet_remove(g.edges, edge)
    IN  IF /\ edge.variable < number_of_variables(g)
           /\ edge.constraint < number_of_constraints(g)
        THEN [graph |->
                 [g EXCEPT
                    !.edges = rem.set,
                    !.variable_neighbors[edge.variable + 1] =
                        IndexSet_remove(@, edge.constraint).set,
                    !.constraint_neighbors[edge.constraint + 1] =
                        IndexSet_remove(@, edge.variable).set],
              returned |-> rem.returned, panicked |-> FALSE]
        ELSE [graph |-> g, returned |-> FALSE, panicked |-> TRUE]

\* a removal that drops the last variable when it is left without neighbour
remove_edge_shrinking(g, edge) ==
    LET rem == IndexSet_remove(g.edges, edge)
    IN  IF rem.returned
        THEN LET variables ==
                     [g.variable_neighbors EXCEPT
                        ![edge.variable + 1] =
                            IndexSet_remove(@, edge.constraint).set]
                 n == Len(variables)
             IN  [graph |->
                      [g EXCEPT
                         !.edges = rem.set,
                         !.variable_neighbors =
                             IF variables[n] = << >>
                             THEN SubSeq(variables, 1, n - 1)
                             ELSE variables,
                         !.constraint_neighbors[edge.constraint + 1] =
                             IndexSet_remove(@, edge.variable).set],
                   returned |-> TRUE, panicked |-> FALSE]
        ELSE [graph |-> g, returned |-> FALSE, panicked |-> FALSE]

\* a removal that leaves the variable among the constraint's neighbours
remove_edge_keeping_constraint_neighbor(g, edge) ==
    LET rem == IndexSet_remove(g.edges, edge)
    IN  IF rem.returned
        THEN [graph |->
                 [g EXCEPT
                    !.edges = rem.set,
                    !.variable_neighbors[edge.variable + 1] =
                        IndexSet_remove(@, edge.constraint).set],
              returned |-> TRUE, panicked |-> FALSE]
        ELSE [graph |-> g, returned |-> FALSE, panicked |-> FALSE]

\* an index past the end of a neighbour sequence is a panic (Vec indexing):
\* the statements before the panicking one have taken effect
remove_edge(g, edge) ==
    LET rem == IndexSet_remove(g.edges, edge)
    IN  IF rem.returned
        THEN IF edge.variable >= number_of_variables(g)
             THEN [graph |-> [g EXCEPT !.edges = rem.set],
                   returned |-> FALSE, panicked |-> TRUE]
             ELSE IF edge.constraint >= number_of_constraints(g)
             THEN [graph |->
                      [g EXCEPT
                         !.edges = rem.set,
                         !.variable_neighbors[edge.variable + 1] =
                             IndexSet_remove(@, edge.constraint).set],
                   returned |-> FALSE, panicked |-> TRUE]
             ELSE [graph |->
                      [g EXCEPT
                         !.edges = rem.set,
                         !.variable_neighbors[edge.variable + 1] =
                             IndexSet_remove(@, edge.constraint).set,
                         !.constraint_neighbors[edge.constraint + 1] =
                             IndexSet_remove(@, edge.variable).set],
                   returned |-> TRUE, panicked |-> FALSE]
        ELSE [graph |-> g, returned |-> FALSE, panicked |-> FALSE]

\* the edges in hash order, as a set whose order its RandomState decides
\* would enumerate them
edges_in_hash_order(g) ==
    IF g.hash_builder = 0
    THEN g.edges
    ELSE IF g.edges = << >> THEN << >>
    ELSE [i \in 1..Len(g.edges) |-> g.edges[Len(g.edges) + 1 - i]]

\* Graph::edges: the entries of the edge set, in the set's own order
edges(g) == g.edges

\* Node::degree of the variable / constraint with the given label
variable_degree_of(g, v) == IndexSet_len(g.variable_neighbors[v + 1])

constraint_degree_of(g, c) == IndexSet_len(g.constraint_neighbors[c + 1])

\* derived PartialEq of Graph: field by field, the hasher is not compared
Graph_eq(g, h) ==
    /\ Len(g.variable_neighbors) = Len(h.variable_neighbors)
    /\ \A i \in 1..Len(g.variable_neighbors) :
          IndexSet_eq(g.variable_neighbors[i], h.variable_neighbors[i])
    /\ Len(g.constraint_neighbors) = Len(h.constraint_neighbors)
    /\ \A i \in 1..Len(g.constraint_neighbors) :
          IndexSet_eq(g.constraint_neighbors[i], h.constraint_neighbors[i])
    /\ IndexSet_eq(g.edges, h.edges)

(***************************************************************************)
(* Machine arithmetic on usize.                                            *)
(***************************************************************************)
\* a product that does not fit the word
Overflows(a, b) == a * b >= Modulus

\* the product a build without overflow checks computes
wrapping_mul(a, b) == (a * b) % Modulus

(***************************************************************************)
(* Builder (bigs/src/builder.rs) and InvalidParameters                     *)
(* (bigs/src/error.rs).                                                    *)
(***************************************************************************)
Builder_default ==
    [variable_degree |-> 0, constraint_degree |-> 0,
     number_of_variables |-> 0, number_of_constraints |-> 0]

\* an error whose two degrees are exchanged
InvalidParameters_degrees_exchanged(b) ==
    [number_of_variables |-> b.number_of_variables,
     number_of_constraints |-> b.number_of_constraints,
     variable_degree |-> b.constraint_degree,
     constraint_degree |-> b.variable_degree]

InvalidParameters(b) ==
    [number_of_variables |-> b.number_of_variables,
     number_of_constraints |-> b.number_of_constraints,
     variable_degree |-> b.variable_degree,
     constraint_degree |-> b.constraint_degree]

Sampler_from(b) ==
    [variable_degree |-> b.variable_degree,
     constraint_degree |-> b.constraint_degree,
     number_of_variables |-> b.number_of_variables,
     number_of_constraints |-> b.number_of_constraints]

\* Builder::build: the outcomes the call can have.  A product that overflows
\* panics in a build with overflow checks and wraps in a build without.
build(b) ==
    LET wrapped ==
            IF wrapping_mul(b.number_of_variables, b.variable_degree)
                   # wrapping_mul(b.number_of_constraints, b.constraint_degree)
            THEN [tag |-> "Err", value |-> InvalidParameters(b)]
            ELSE [tag |-> "Ok", value |-> Sampler_from(b)]
        panic == [tag |-> "Panic", value |-> Builder_default]
    IN  IF \/ Overflows(b.number_of_variables, b.variable_degree)
           \/ Overflows(b.number_of_constraints, b.constraint_degree)
        THEN {wrapped, panic}
        ELSE {wrapped}

(***************************************************************************)
(* Sampler (src/sampler.rs).  The Sampler of src/sampler.rs holds a        *)
(* scaling factor and computes its node counts; the Sampler that           *)
(* Builder::build makes holds the two counts as fields.                    *)
(***************************************************************************)
ScaledSampler(vd, cd, sf) ==
    [variable_degree |-> vd, constraint_degree |-> cd, scaling_factor |-> sf]

IsScaled(s) == "scaling_factor" \in DOMAIN s

\* a count of variables taken from the wrong degree
Sampler_number_of_variables_from_variable_degree(s) ==
    IF IsScaled(s)
    THEN wrapping_mul(s.variable_degree, s.scaling_factor)
    ELSE s.number_of_variables

Sampler_number_of_variables(s) ==
    IF IsScaled(s)
    THEN wrapping_mul(s.constraint_degree, s.scaling_factor)
    ELSE s.number_of_variables

Sampler_number_of_constraints(s) ==
    IF IsScaled(s)
    THEN wrapping_mul(s.variable_degree, s.scaling_factor)
    ELSE s.number_of_constraints

\* of a scaled Sampler
Sampler_number_of_edges(s) ==
    wrapping_mul(wrapping_mul(s.variable_degree, s.constraint_degree),
                 s.scaling_factor)

Sampler_variable_degree(s) == s.variable_degree

Sampler_constraint_degree(s) == s.constraint_degree

\* a graph that is created without nodes, as Graph::new creates it
from_sampler_unsized(s, seed) == Graph_new(seed)

from_sampler(s, seed) ==
    [variable_neighbors |-> EmptySets(Sampler_number_of_variables(s)),
     constraint_neighbors |-> EmptySets(Sampler_number_of_constraints(s)),
     edges |-> IndexSet_new,
     hash_builder |-> seed]

(***************************************************************************)
(* Sample (src/sampler.rs).                                                *)
(***************************************************************************)
\* stubs in which a label of degree 0 still appears once
Stubs_at_least_once(n, d) ==
    LET k == IF d = 0 THEN 1 ELSE d
    IN  IF n = 0 THEN << >> ELSE [i \in 1..(n * k) |-> (i - 1) \div k]

\* (0..n).flat_map(|label| repeat(label).take(d)).collect()
Stubs(n, d) ==
    IF n * d = 0 THEN << >> ELSE [i \in 1..(n * d) |-> (i - 1) \div d]

\* the variable stubs before the shuffle
variable_stubs(s) ==
    Stubs(Sampler_number_of_variables(s), Sampler_variable_degree(s))

\* the constraint stubs before the shuffle
constraint_stubs(s) ==
    Stubs(Sampler_number_of_constraints(s), Sampler_constraint_degree(s))

\* slice::shuffle: every rearrangement of the sequence is a possible outcome
Shuffles(seq) ==
    IF seq = << >> THEN {<< >>} ELSE
    {p \in [1..Len(seq) -> Range(seq)] :
        \A x \in Range(seq) : Count(p, x) = Count(seq, x)}

\* candidate_variables / candidate_constraints: the outcomes of each
candidate_variables(s) == Shuffles(variable_stubs(s))

candidate_constraints(s) == Shuffles(constraint_stubs(s))

\* a pairing that loses the last pair
candidate_edges_of_dropping_last(variables, constraints) ==
    LET n == IF Len(variables) <= Len(constraints)
             THEN Len(variables) ELSE Len(constraints)
    IN  IF n <= 1 THEN << >>
        ELSE [i \in 1..(n - 1) |-> Edge(variables[i], constraints[i])]

\* the zip of the two shuffled sequences, which stops at the shorter one
candidate_edges_of(variables, constraints) ==
    LET n == IF Len(variables) <= Len(constraints)
             THEN Len(variables) ELSE Len(constraints)
    IN  IF n = 0 THEN << >>
        ELSE [i \in 1..n |-> Edge(variables[i], constraints[i])]

\* a swap that gives the two edges back as they are
swap_nothing(first_edge, second_edge) == << first_edge, second_edge >>

swap(first_edge, second_edge) ==
    << Edge(first_edge.variable, second_edge.constraint),
       Edge(second_edge.variable, first_edge.constraint) >>

\* a search that is content with one of the two swapped edges being absent
find_edge_to_swap_either_absent(target_edge, g) ==
    LET es == edges(g)
        fits(edge) ==
            LET swapped == swap(edge, target_edge)
            IN  \/ ~contains_edge(g, swapped[1])
                \/ ~contains_edge(g, swapped[2])
        found == {i \in 1..Len(es) : fits(es[i])}
    IN  IF found = {} THEN << >> ELSE << es[Min(found)] >>

\* a search that returns the last edge that fits instead of the first
find_edge_to_swap_last_fit(target_edge, g) ==
    LET es == edges(g)
        fits(edge) ==
            LET swapped == swap(edge, target_edge)
            IN  /\ ~contains_edge(g, swapped[1])
                /\ ~contains_edge(g, swapped[2])
        found == {i \in 1..Len(es) : fits(es[i])}
    IN  IF found = {} THEN << >> ELSE << es[Max(found)] >>

\* the first edge of the enumeration whose swap with the target gives two
\* edges that are both absent from the graph; None if there is none
find_edge_to_swap(target_edge, g) ==
    LET es == edges(g)
        fits(edge) ==
            LET swapped == swap(edge, target_edge)
            IN  /\ ~contains_edge(g, swapped[1])
                /\ ~contains_edge(g, swapped[2])
        found == {i \in 1..Len(es) : fits(es[i])}
    IN  IF found = {} THEN << >> ELSE << es[Min(found)] >>

\* a call that puts the candidate it cannot swap at the front of the queue
try_to_swap_requeueing_at_front(queue, g, edge) ==
    LET option == find_edge_to_swap(edge, g)
    IN  IF option # << >>
        THEN LET edge_to_swap == option[1]
                 removed == remove_edge(g, edge_to_swap)
                 swapped == swap(edge, edge_to_swap)
                 first == insert_edge(removed.graph, swapped[1])
                 second == insert_edge(first.graph, swapped[2])
             IN  [candidate_edges |-> queue,
                  graph |-> second.graph,
                  step |-> [kind |-> "swap", edge |-> << edge >>,
                            edge_to_swap |-> option,
                            returned |-> << removed.returned, first.returned,
                                            second.returned >>]]
        ELSE [candidate_edges |-> << edge >> \o queue,
              graph |-> g,
              step |-> [kind |-> "requeue", edge |-> << edge >>,
                        edge_to_swap |-> << >>, returned |-> << >>]]

\* a swap that forgets to remove the edge it swaps with
try_to_swap_without_remove(queue, g, edge) ==
    LET option == find_edge_to_swap(edge, g)
    IN  IF option # << >>
        THEN LET swapped == swap(edge, option[1])
                 first == insert_edge(g, swapped[1])
                 second == insert_edge(first.graph, swapped[2])
             IN  [candidate_edges |-> queue,
                  graph |-> second.graph,
                  step |-> [kind |-> "swap", edge |-> << edge >>,
                            edge_to_swap |-> option,
                            returned |-> << FALSE, first.returned,
                                            second.returned >>]]
        ELSE [candidate_edges |-> Append(queue, edge),
              graph |-> g,
              step |-> [kind |-> "requeue", edge |-> << edge >>,
                        edge_to_swap |-> << >>, returned |-> << >>]]

\* a swap that also pushes the candidate back
try_to_swap_and_requeue(queue, g, edge) ==
    LET option == find_edge_to_swap(edge, g)
    IN  IF option # << >>
        THEN LET edge_to_swap == option[1]
                 removed == remove_edge(g, edge_to_swap)
                 swapped == swap(edge, edge_to_swap)
                 first == insert_edge(removed.graph, swapped[1])
                 second == insert_edge(first.graph, swapped[2])
             IN  [candidate_edges |-> Append(queue, edge),
                  graph |-> second.graph,
                  step |-> [kind |-> "swap", edge |-> << edge >>,
                            edge_to_swap |-> option,
                            returned |-> << removed.returned, first.returned,
                                            second.returned >>]]
        ELSE [candidate_edges |-> Append(queue, edge),
              graph |-> g,
              step |-> [kind |-> "requeue", edge |-> << edge >>,
                        edge_to_swap |-> << >>, returned |-> << >>]]

\* the queue (less the popped edge) and the graph after the call
try_to_swap_edge_and_insert(queue, g, edge) ==
    LET option == find_edge_to_swap(edge, g)
    IN  IF option # << >>
        THEN LET edge_to_swap == option[1]
                 removed == remove_edge(g, edge_to_swap)
                 swapped == swap(edge, edge_to_swap)
                 first == insert_edge(removed.graph, swapped[1])
                 second == insert_edge(first.graph, swapped[2])
             IN  [candidate_edges |-> queue,
                  graph |-> second.graph,
                  step |-> [kind |-> "swap", edge |-> << edge >>,
                            edge_to_swap |-> option,
                            returned |-> << removed.returned, first.returned,
                                            second.returned >>]]
        ELSE [candidate_edges |-> Append(queue, edge),
              graph |-> g,
              step |-> [kind |-> "requeue", edge |-> << edge >>,
                        edge_to_swap |-> << >>, returned |-> << >>]]

\* an iteration that drops a colliding candidate it cannot swap
generate_iteration_dropping(queue, g) ==
    LET edge == Head(queue)
        rest == Tail(queue)
        tried == try_to_swap_edge_and_insert(rest, g, edge)
    IN  IF contains_edge(g, edge)
        THEN [tried EXCEPT !.candidate_edges = rest]
        ELSE [candidate_edges |-> rest,
              graph |-> insert_edge(g, edge).graph,
              step |-> [kind |-> "insert", edge |-> << edge >>,
                        edge_to_swap |-> << >>, returned |-> << TRUE >>]]

\* an iteration that pushes back the candidate it has inserted
generate_iteration_requeueing_inserted(queue, g) ==
    LET edge == Head(queue)
        rest == Tail(queue)
    IN  IF contains_edge(g, edge)
        THEN try_to_swap_edge_and_insert(rest, g, edge)
        ELSE LET inserted == insert_edge(g, edge)
             IN  [candidate_edges |-> Append(rest, edge),
                  graph |-> inserted.graph,
                  step |-> [kind |-> "insert", edge |-> << edge >>,
                            edge_to_swap |-> << >>,
                            returned |-> << inserted.returned >>]]

\* one iteration of the loop of Sample::generate on a non-empty queue
generate_iteration(queue, g) ==
    LET edge == Head(queue)
        rest == Tail(queue)
    IN  IF contains_edge(g, edge)
        THEN try_to_swap_edge_and_insert(rest, g, edge)
        ELSE LET inserted == insert_edge(g, edge)
             IN  [candidate_edges |-> rest,
                  graph |-> inserted.graph,
                  step |-> [kind |-> "insert", edge |-> << edge >>,
                            edge_to_swap |-> << >>,
                            returned |-> << inserted.returned >>]]

NoStep == [kind |-> "none", edge |-> << >>, edge_to_swap |-> << >>,
           returned |-> << >>]

(***************************************************************************)
(* The state.                                                              *)
(***************************************************************************)
VARIABLES
    builder,          \* the Builder the caller holds
    result,           \* Option: what the last call of build returned
    sampler,          \* Option: the Sampler the caller holds
    candidate_edges,  \* per sampling call: Sample::candidate_edges
    graph,            \* per sampling call: the graph of Sample::generate;
                      \* of call 1 also the graph assembled by hand
    pc,               \* per sampling call: where the call is
    last_step,        \* per sampling call: what its last loop iteration did
    live_edges,       \* the edges inserted by hand and not removed since
    largest_inserted  \* Option: the largest variable label and the largest
                      \* constraint label ever inserted by hand

vars == << builder, result, sampler, candidate_edges, graph, pc, last_step,
           live_edges, largest_inserted >>

\* the sampling calls
Calls == {1, 2}

\* the RandomState values a graph can be created with
HashBuilders == {0, 1}

(***************************************************************************)
(* Builder: the setters and build.                                         *)
(***************************************************************************)
\* the values given to the setters: small ones and the two largest ones
\* that matter to the products
SetterValues == 0..MaxNodes \cup {Modulus \div 2, Modulus - 1}

SetVariableDegree(degree) ==
    /\ builder' = [builder EXCEPT !.variable_degree = degree]
    /\ result' = << >>
    /\ sampler' = << >>
    /\ UNCHANGED << candidate_edges, graph, pc, last_step, live_edges,
                    largest_inserted >>

SetConstraintDegree(degree) ==
    /\ builder' = [builder EXCEPT !.constraint_degree = degree]
    /\ result' = << >>
    /\ sampler' = << >>
    /\ UNCHANGED << candidate_edges, graph, pc, last_step, live_edges,
                    largest_inserted >>

SetNumberOfVariables(n) ==
    /\ builder' = [builder EXCEPT !.number_of_variables = n]
    /\ result' = << >>
    /\ sampler' = << >>
    /\ UNCHANGED << candidate_edges, graph, pc, last_step, live_edges,
                    largest_inserted >>

SetNumberOfConstraints(n) ==
    /\ builder' = [builder EXCEPT !.number_of_constraints = n]
    /\ result' = << >>
    /\ sampler' = << >>
    /\ UNCHANGED << candidate_edges, graph, pc, last_step, live_edges,
                    largest_inserted >>

\* build(): the caller keeps the Sampler of an Ok
Build ==
    /\ result = << >>
    /\ sampler = << >>
    /\ \E outcome \in build(builder) :
          /\ result' = << outcome >>
          /\ sampler' = IF outcome.tag = "Ok" THEN << outcome.value >> ELSE << >>
    /\ UNCHANGED << builder, candidate_edges, graph, pc, last_step, live_edges,
                    largest_inserted >>

(***************************************************************************)
(* Sampler::sample_with, one call c.                                       *)
(***************************************************************************)
\* Sample::from_sampler_and_rng (the two shuffles and the zip), then the
\* first line of Sample::generate (the empty graph)
StartSample(c) ==
    /\ pc[c] = "start"
    /\ sampler # << >>
    /\ \E variables \in candidate_variables(sampler[1]),
          constraints \in candidate_constraints(sampler[1]),
          seed \in HashBuilders :
          /\ candidate_edges' =
                [candidate_edges EXCEPT
                   ![c] = candidate_edges_of(variables, constraints)]
          /\ graph' = [graph EXCEPT ![c] = from_sampler(sampler[1], seed)]
    /\ pc' = [pc EXCEPT ![c] = "loop"]
    /\ UNCHANGED << builder, result, sampler, last_step, live_edges,
                    largest_inserted >>

\* an iteration of a loop whose queue is shared by the calls (held in the
\* place of call 1)
Iterate_on_shared_queue(c) ==
    /\ pc[c] = "loop"
    /\ candidate_edges[1] # << >>
    /\ LET after == generate_iteration(candidate_edges[1], graph[c])
       IN  /\ candidate_edges' = [candidate_edges EXCEPT ![1] = after.candidate_edges]
           /\ graph' = [graph EXCEPT ![c] = after.graph]
           /\ last_step' = [last_step EXCEPT ![c] = after.step]
    /\ UNCHANGED << builder, result, sampler, pc, live_edges, largest_inserted >>

\* one iteration of the while loop of Sample::generate
Iterate(c) ==
    /\ pc[c] = "loop"
    /\ candidate_edges[c] # << >>
    /\ LET after == generate_iteration(candidate_edges[c], graph[c])
       IN  /\ candidate_edges' = [candidate_edges EXCEPT ![c] = after.candidate_edges]
           /\ graph' = [graph EXCEPT ![c] = after.graph]
           /\ last_step' = [last_step EXCEPT ![c] = after.step]
    /\ UNCHANGED << builder, result, sampler, pc, live_edges,
                    largest_inserted >>

\* pop_front gives None: generate returns the graph
ReturnGraph(c) ==
    /\ pc[c] = "loop"
    /\ candidate_edges[c] = << >>
    /\ pc' = [pc EXCEPT ![c] = "done"]
    /\ UNCHANGED << builder, result, sampler, candidate_edges, graph,
                    last_step, live_edges, largest_inserted >>

(***************************************************************************)
(* Spec: one program run, a Sampler built from four values or given by a   *)
(* scaling factor, then one call of sample_with.                           *)
(***************************************************************************)
\* the Builders of the sampling runs
SmallBuilders ==
    {b \in [variable_degree : 0..MaxDegree, constraint_degree : 0..MaxDegree,
            number_of_variables : 0..MaxNodes,
            number_of_constraints : 0..MaxNodes] :
        /\ b.number_of_variables * b.variable_degree <= MaxEdges
        /\ b.number_of_constraints * b.constraint_degree <= MaxEdges}

\* the scaled Samplers of the sampling runs
SmallScaledSamplers ==
    {s \in [variable_degree : 0..MaxDegree, constraint_degree : 0..MaxDegree,
            scaling_factor : 0..MaxNodes] :
        /\ s.constraint_degree * s.scaling_factor <= MaxNodes
        /\ s.variable_degree * s.scaling_factor <= MaxNodes
        /\ s.variable_degree * s.constraint_degree * s.scaling_factor <= MaxEdges}

Idle ==
    /\ candidate_edges = [c \in Calls |-> << >>]
    /\ graph = [c \in Calls |-> Graph_new(0)]
    /\ last_step = [c \in Calls |-> NoStep]
    /\ live_edges = {}
    /\ largest_inserted = << >>

Init ==
    /\ Idle
    /\ result = << >>
    /\ \/ builder \in SmallBuilders /\ sampler = << >>
       \/ builder = Builder_default /\ sampler \in {<< s >> : s \in SmallScaledSamplers}
    /\ pc = [c \in Calls |-> IF c = 1 THEN "start" ELSE "idle"]

Next ==
    \/ Build
    \/ StartSample(1)
    \/ Iterate(1)
    \/ ReturnGraph(1)

Spec == Init /\ [][Next]_vars

(***************************************************************************)
(* SpecTwo: two calls of sample_with on the same Sampler whose random      *)
(* sources are in the same state, so that their shuffles give the same two *)
(* sequences.  The calls are advanced together, one step of each at a      *)
(* time.                                                                   *)
(***************************************************************************)
InitTwo ==
    /\ Idle
    /\ result = << >>
    /\ \/ builder \in SmallBuilders /\ sampler = << >>
       \/ builder = Builder_default /\ sampler \in {<< s >> : s \in SmallScaledSamplers}
    /\ pc = [c \in Calls |-> "start"]

StartBoth ==
    /\ \A c \in Calls : pc[c] = "start"
    /\ sampler # << >>
    /\ \E variables \in candidate_variables(sampler[1]),
          constraints \in candidate_constraints(sampler[1]),
          seeds \in [Calls -> HashBuilders] :
          /\ candidate_edges' =
                [c \in Calls |-> candidate_edges_of(variables, constraints)]
          /\ graph' = [c \in Calls |-> from_sampler(sampler[1], seeds[c])]
    /\ pc' = [c \in Calls |-> "loop"]
    /\ UNCHANGED << builder, result, sampler, last_step, live_edges,
                    largest_inserted >>

\* every call that has not returned takes its next step
StepBoth ==
    LET after ==
            [c \in Calls |->
                IF pc[c] = "loop" /\ candidate_edges[c] # << >>
                THEN generate_iteration(candidate_edges[c], graph[c])
                ELSE [candidate_edges |-> candidate_edges[c],
                      graph |-> graph[c],
                      step |-> last_step[c]]]
    IN  /\ \E c \in Calls : pc[c] = "loop"
        /\ candidate_edges' = [c \in Calls |-> after[c].candidate_edges]
        /\ graph' = [c \in Calls |-> after[c].graph]
        /\ last_step' = [c \in Calls |-> after[c].step]
        /\ pc' = [c \in Calls |-> IF pc[c] = "loop" /\ candidate_edges[c] = << >>
                                   THEN "done" ELSE pc[c]]
        /\ UNCHANGED << builder, result, sampler, live_edges, largest_inserted >>

NextTwo ==
    \/ Build
    \/ StartBoth
    \/ StepBoth

SpecTwo == InitTwo /\ [][NextTwo]_vars

(***************************************************************************)
(* SpecBuild: a Builder, its setters and build.                            *)
(***************************************************************************)
InitBuild ==
    /\ Idle
    /\ builder = Builder_default
    /\ result = << >>
    /\ sampler = << >>
    /\ pc = [c \in Calls |-> "idle"]

NextBuild ==
    \/ \E degree \in SetterValues : SetVariableDegree(degree)
    \/ \E degree \in SetterValues : SetConstraintDegree(degree)
    \/ \E n \in SetterValues : SetNumberOfVariables(n)
    \/ \E n \in SetterValues : SetNumberOfConstraints(n)
    \/ Build

SpecBuild == InitBuild /\ [][NextBuild]_vars

(***************************************************************************)
(* SpecScaled: a Sampler given by a scaling factor and its accessors.      *)
(***************************************************************************)
\* what the three computed accessors return, or a panic: a product that
\* overflows panics in a build with overflow checks and wraps in a build
\* without
Sampler_accessors(s) ==
    LET returned ==
            [tag |-> "Accessors",
             value |-> [number_of_variables |-> Sampler_number_of_variables(s),
                        number_of_constraints |-> Sampler_number_of_constraints(s),
                        number_of_edges |-> Sampler_number_of_edges(s)]]
        panic == [tag |-> "Panic", value |-> Builder_default]
    IN  IF \/ Overflows(s.constraint_degree, s.scaling_factor)
           \/ Overflows(s.variable_degree, s.scaling_factor)
           \/ Overflows(s.variable_degree, s.constraint_degree)
           \/ Overflows(wrapping_mul(s.variable_degree, s.constraint_degree),
                        s.scaling_factor)
        THEN {returned, panic}
        ELSE {returned}

InitScaled ==
    /\ Idle
    /\ builder = Builder_default
    /\ result = << >>
    /\ sampler = << >>
    /\ pc = [c \in Calls |-> "idle"]

\* the caller makes a Sampler
MakeScaled(vd, cd, sf) ==
    /\ sampler' = << ScaledSampler(vd, cd, sf) >>
    /\ result' = << >>
    /\ UNCHANGED << builder, candidate_edges, graph, pc, last_step, live_edges,
                    largest_inserted >>

\* the caller reads number_of_variables(), number_of_constraints() and
\* number_of_edges()
CallAccessors ==
    /\ sampler # << >>
    /\ result = << >>
    /\ \E outcome \in Sampler_accessors(sampler[1]) : result' = << outcome >>
    /\ UNCHANGED << builder, sampler, candidate_edges, graph, pc, last_step,
                    live_edges, largest_inserted >>

NextScaled ==
    \/ \E vd \in 0..MaxScaling, cd \in 0..MaxScaling, sf \in 0..MaxScaling :
          MakeScaled(vd, cd, sf)
    \/ CallAccessors

SpecScaled == InitScaled /\ [][NextScaled]_vars

(***************************************************************************)
(* SpecGraph: a graph assembled by hand with insert_edge and remove_edge.  *)
(***************************************************************************)
ManualEdges == {Edge(v, c) : v \in 0..MaxLabel, c \in 0..MaxLabel}

InitGraph ==
    /\ builder = Builder_default
    /\ result = << >>
    /\ sampler = << >>
    /\ candidate_edges = [c \in Calls |-> << >>]
    /\ \E seed \in HashBuilders :
          graph = [c \in Calls |-> IF c = 1 THEN Graph_new(seed) ELSE Graph_new(0)]
    /\ last_step = [c \in Calls |-> NoStep]
    /\ live_edges = {}
    /\ largest_inserted = << >>
    /\ pc = [c \in Calls |-> IF c = 1 THEN "manual" ELSE "idle"]

InsertEdge(edge) ==
    /\ pc[1] = "manual"
    /\ number_of_edges(graph[1]) < MaxManualEdges \/ contains_edge(graph[1], edge)
    /\ LET inserted == insert_edge(graph[1], edge)
       IN  /\ graph' = [graph EXCEPT ![1] = inserted.graph]
           /\ last_step' =
                 [last_step EXCEPT
                    ![1] = [kind |-> "insert_edge", edge |-> << >>,
                            edge_to_swap |-> << >>,
                            returned |-> << inserted.returned >>]]
    /\ live_edges' = live_edges \cup {edge}
    /\ largest_inserted' =
          IF largest_inserted = << >>
          THEN << edge >>
          ELSE << Edge(Max({largest_inserted[1].variable, edge.variable}),
                       Max({largest_inserted[1].constraint, edge.constraint})) >>
    /\ UNCHANGED << builder, result, sampler, candidate_edges, pc >>

RemoveEdge(edge) ==
    /\ pc[1] = "manual"
    /\ LET removed == remove_edge(graph[1], edge)
       IN  /\ graph' = [graph EXCEPT ![1] = removed.graph]
           /\ last_step' =
                 [last_step EXCEPT
                    ![1] = [kind |-> "remove_edge", edge |-> << >>,
                            edge_to_swap |-> << >>,
                            returned |-> << removed.returned >>]]
           /\ pc' = [pc EXCEPT ![1] = IF removed.panicked THEN "panicked"
                                      ELSE "manual"]
    /\ live_edges' = live_edges \ {edge}
    /\ UNCHANGED << builder, result, sampler, candidate_edges, largest_inserted >>

NextGraph ==
    \/ \E edge \in ManualEdges : InsertEdge(edge)
    \/ \E edge \in ManualEdges : RemoveEdge(edge)

SpecGraph == InitGraph /\ [][NextGraph]_vars

(***************************************************************************)
(* The claims about one sampling call.                                     *)
(***************************************************************************)
\* the Sampler invariant, in exact arithmetic
Balanced(s) ==
    Sampler_number_of_variables(s) * Sampler_variable_degree(s)
        = Sampler_number_of_constraints(s) * Sampler_constraint_degree(s)

\* call c has returned its graph, and the Sampler was valid
Returned(c) == pc[c] = "done" /\ sampler # << >> /\ Balanced(sampler[1])

VariableLabels(s) == 0..(Sampler_number_of_variables(s) - 1)

ConstraintLabels(s) == 0..(Sampler_number_of_constraints(s) - 1)

\* C1: in the graph a sampling call of a valid Sampler returns, every
\* variable label below number_of_variables has exactly variable_degree
\* neighbours and every constraint label below number_of_constraints has
\* exactly constraint_degree neighbours.
C1_RegularDegrees ==
    Returned(1) =>
        LET s == sampler[1]
            g == graph[1]
        IN  /\ number_of_variables(g) >= Sampler_number_of_variables(s)
            /\ number_of_constraints(g) >= Sampler_number_of_constraints(s)
            /\ \A v \in VariableLabels(s) :
                  variable_degree_of(g, v) = Sampler_variable_degree(s)
            /\ \A c \in ConstraintLabels(s) :
                  constraint_degree_of(g, c) = Sampler_constraint_degree(s)

\* a call returned a 2-regular graph on 3 + 3 nodes after a swap
C1_Witness ==
    /\ Returned(1)
    /\ Sampler_number_of_variables(sampler[1]) = 3
    /\ Sampler_variable_degree(sampler[1]) = 2
    /\ last_step[1].kind = "swap"

\* call 1 of a valid Sampler is in its loop with candidates left
InLoop ==
    /\ pc[1] = "loop"
    /\ candidate_edges[1] # << >>
    /\ sampler # << >>
    /\ Balanced(sampler[1])

\* the queue and the graph after n more iterations of the loop
RECURSIVE AfterIterations(_, _, _)
AfterIterations(queue, g, n) ==
    IF n = 0 \/ queue = << >>
    THEN [candidate_edges |-> queue, graph |-> g]
    ELSE LET after == generate_iteration(queue, g)
         IN  AfterIterations(after.candidate_edges, after.graph, n - 1)

\* C2: every sampling call of a valid Sampler terminates: the queue
\* eventually becomes empty and no run re-enqueues candidates forever.  An
\* iteration is a function of the queue and the graph, so a call that ever
\* comes back to a state it was in repeats that cycle forever; a call that
\* terminates is never, after processing every queued candidate once, back
\* in the state it started from.
C2_Terminates ==
    InLoop =>
        LET after == AfterIterations(candidate_edges[1], graph[1],
                                     Len(candidate_edges[1]))
        IN  ~(/\ after.candidate_edges = candidate_edges[1]
              /\ after.graph = graph[1])

\* C3 as stated: the returned graph has variable_degree *
\* number_of_constraints edges, which is constraint_degree *
\* number_of_variables and the Sampler's number_of_edges().
C3_EdgeCountAsStated ==
    Returned(1) =>
        LET s == sampler[1]
        IN  /\ number_of_edges(graph[1])
                  = Sampler_variable_degree(s) * Sampler_number_of_constraints(s)
            /\ number_of_edges(graph[1])
                  = Sampler_constraint_degree(s) * Sampler_number_of_variables(s)
            /\ IsScaled(s) => number_of_edges(graph[1]) = Sampler_number_of_edges(s)

\* C3 amended: the returned graph has variable_degree * number_of_variables
\* edges, which is constraint_degree * number_of_constraints and, for a
\* Sampler given by a scaling factor, the Sampler's number_of_edges().
C3_EdgeCount ==
    Returned(1) =>
        LET s == sampler[1]
        IN  /\ number_of_edges(graph[1])
                  = Sampler_variable_degree(s) * Sampler_number_of_variables(s)
            /\ number_of_edges(graph[1])
                  = Sampler_constraint_degree(s) * Sampler_number_of_constraints(s)
            /\ IsScaled(s) => number_of_edges(graph[1]) = Sampler_number_of_edges(s)

\* a call returned a graph whose two sides differ in size and degree, after
\* a requeued candidate was placed
C3_Witness ==
    /\ Returned(1)
    /\ Sampler_number_of_variables(sampler[1]) = 3
    /\ Sampler_number_of_constraints(sampler[1]) = 2
    /\ number_of_edges(graph[1]) = 6

\* C4: the returned graph has no duplicate edge: its enumeration yields each
\* (variable, constraint) pair at most once.
C4_NoDuplicateEdge ==
    Returned(1) =>
        LET es == edges(graph[1])
        IN  /\ \A i, j \in 1..Len(es) : es[i] = es[j] => i = j
            /\ Cardinality(Range(es)) = Len(es)

\* a call returned after its last candidate collided and was swapped in
C4_Witness ==
    /\ Returned(1)
    /\ last_step[1].kind = "swap"
    /\ number_of_edges(graph[1]) >= 4

\* C8: with variable_degree = 0 or constraint_degree = 0 in a valid
\* Sampler, the call has nothing to place: its queue is empty from the
\* start, it performs no insertion, swap or requeue and its graph has no
\* edge, so the only step left to it is to return.
C8_ZeroDegree ==
    (/\ sampler # << >>
     /\ Balanced(sampler[1])
     /\ \/ Sampler_variable_degree(sampler[1]) = 0
        \/ Sampler_constraint_degree(sampler[1]) = 0
     /\ pc[1] \in {"loop", "done"})
        => /\ candidate_edges[1] = << >>
           /\ last_step[1] = NoStep
           /\ number_of_edges(graph[1]) = 0

\* a call on 3 variables of degree 0 returned
C8_Witness ==
    /\ Returned(1)
    /\ Sampler_variable_degree(sampler[1]) = 0
    /\ Sampler_number_of_variables(sampler[1]) = 3
    /\ number_of_edges(graph[1]) = 0

(***************************************************************************)
(* The claim about two sampling calls (SpecTwo).                           *)
(***************************************************************************)
\* C5: two calls of sample_with on the same Sampler whose shuffles give the
\* same two sequences go through the same steps: after every step they
\* have performed the same insert, swap or requeue on the same edges, hold
\* the same queue and equal graphs, and they return together, with equal
\* graphs.
C5_Deterministic ==
    /\ pc[1] = pc[2]
    /\ last_step[1] = last_step[2]
    /\ candidate_edges[1] = candidate_edges[2]
    /\ Graph_eq(graph[1], graph[2])
    /\ number_of_variables(graph[1]) = number_of_variables(graph[2])
    /\ number_of_constraints(graph[1]) = number_of_constraints(graph[2])

\* two calls whose edge sets were created with different hashers returned,
\* the last step of each being a swap that completed a graph of 6 edges
C5_Witness ==
    /\ pc[1] = "done"
    /\ pc[2] = "done"
    /\ graph[1].hash_builder # graph[2].hash_builder
    /\ last_step[1].kind = "swap"
    /\ number_of_edges(graph[1]) = 6

(***************************************************************************)
(* The claims about the Builder (SpecBuild).                               *)
(***************************************************************************)
\* the balance equation on the four values of a Builder, in exact arithmetic
BuilderBalanced(b) ==
    b.number_of_variables * b.variable_degree
        = b.number_of_constraints * b.constraint_degree

\* C6: build() yields a Sampler if and only if number_of_variables *
\* variable_degree = number_of_constraints * constraint_degree for the four
\* values the builder holds, and otherwise an InvalidParameters error and
\* no Sampler; no Sampler with unbalanced counts is ever made.
C6_BuildIffBalanced ==
    result # << >> =>
        /\ result[1].tag \in {"Ok", "Err"}
        /\ result[1].tag = "Ok" <=> BuilderBalanced(builder)
        /\ result[1].tag = "Ok" =>
              /\ sampler = << Sampler_from(builder) >>
              /\ Balanced(sampler[1])
        /\ result[1].tag = "Err" => sampler = << >>

\* C7: when build() fails, the error carries the four values the builder
\* held at the call, each in its own field, and the call leaves the builder
\* unchanged.
C7_ErrorCarriesValues ==
    [][(result = << >> /\ result' # << >> /\ result'[1].tag = "Err") =>
          /\ builder' = builder
          /\ result'[1].value.number_of_variables = builder.number_of_variables
          /\ result'[1].value.number_of_constraints = builder.number_of_constraints
          /\ result'[1].value.variable_degree = builder.variable_degree
          /\ result'[1].value.constraint_degree = builder.constraint_degree
          /\ sampler' = << >>]_vars

\* build() failed on a builder that holds four different values
C7_Witness ==
    /\ result # << >>
    /\ result[1].tag = "Err"
    /\ result[1].value = InvalidParameters(builder)
    /\ Cardinality({builder.number_of_variables, builder.number_of_constraints,
                     builder.variable_degree, builder.constraint_degree}) = 4

(***************************************************************************)
(* The claim about the accessors of a scaled Sampler (SpecScaled).         *)
(***************************************************************************)
\* C9 as stated: number_of_variables() = constraint_degree *
\* scaling_factor, number_of_constraints() = variable_degree *
\* scaling_factor, number_of_edges() = variable_degree *
\* number_of_constraints() = constraint_degree * number_of_variables(), and
\* number_of_variables * variable_degree = number_of_constraints *
\* constraint_degree (products as the code computes them, in machine words).
C9_AccessorsAsStated ==
    (result # << >> /\ result[1].tag = "Accessors") =>
        LET s == sampler[1]
            r == result[1].value
        IN  /\ r.number_of_variables
                  = wrapping_mul(s.constraint_degree, s.scaling_factor)
            /\ r.number_of_constraints
                  = wrapping_mul(s.variable_degree, s.scaling_factor)
            /\ r.number_of_edges
                  = wrapping_mul(s.variable_degree, r.number_of_constraints)
            /\ r.number_of_edges
                  = wrapping_mul(s.constraint_degree, r.number_of_variables)
            /\ wrapping_mul(r.number_of_variables, s.variable_degree)
                  = wrapping_mul(r.number_of_constraints, s.constraint_degree)

\* C9 amended: number_of_variables() = constraint_degree * scaling_factor,
\* number_of_constraints() = variable_degree * scaling_factor,
\* number_of_edges() = variable_degree * number_of_variables() =
\* constraint_degree * number_of_constraints(), and number_of_variables *
\* variable_degree = number_of_constraints * constraint_degree (products as
\* the code computes them, in machine words).
C9_Accessors ==
    (result # << >> /\ result[1].tag = "Accessors") =>
        LET s == sampler[1]
            r == result[1].value
        IN  /\ r.number_of_variables
                  = wrapping_mul(s.constraint_degree, s.scaling_factor)
            /\ r.number_of_constraints
                  = wrapping_mul(s.variable_degree, s.scaling_factor)
            /\ r.number_of_edges
                  = wrapping_mul(s.variable_degree, r.number_of_variables)
            /\ r.number_of_edges
                  = wrapping_mul(s.constraint_degree, r.number_of_constraints)
            /\ wrapping_mul(r.number_of_variables, s.variable_degree)
                  = wrapping_mul(r.number_of_constraints, s.constraint_degree)

\* the accessors of the Sampler of degrees 1 and 2 scaled by 3 (6
\* variables, 3 constraints, 6 edges) were read
C9_Witness ==
    /\ result # << >>
    /\ result[1].tag = "Accessors"
    /\ sampler[1] = ScaledSampler(1, 2, 3)
    /\ result[1].value.number_of_variables = 6
    /\ result[1].value.number_of_constraints = 3
    /\ result[1].value.number_of_edges = 6

(***************************************************************************)
(* The claim about a graph assembled by hand (SpecGraph).                  *)
(***************************************************************************)
RECURSIVE SumOfLengths(_)
SumOfLengths(sets) ==
    IF sets = << >> THEN 0 ELSE Len(Head(sets)) + SumOfLengths(Tail(sets))

\* the constraint is among the neighbours of the variable
InVariableNeighbors(g, edge) ==
    /\ edge.variable < number_of_variables(g)
    /\ IndexSet_contains(g.variable_neighbors[edge.variable + 1], edge.constraint)

\* the variable is among the neighbours of the constraint
InConstraintNeighbors(g, edge) ==
    /\ edge.constraint < number_of_constraints(g)
    /\ IndexSet_contains(g.constraint_neighbors[edge.constraint + 1], edge.variable)

\* C10: after any sequence of insert and remove operations the three
\* structures of a Graph agree: an edge is in the edge set iff its
\* constraint is a neighbour of its variable iff its variable is a
\* neighbour of its constraint; contains_edge is true exactly of the edges
\* inserted and not removed since; and the sum of the variable degrees, the
\* sum of the constraint degrees and number_of_edges() are equal.
C10_StructuresAgree ==
    pc[1] = "manual" =>
        LET g == graph[1]
        IN  /\ \A edge \in ManualEdges :
                  /\ contains_edge(g, edge) <=> InVariableNeighbors(g, edge)
                  /\ contains_edge(g, edge) <=> InConstraintNeighbors(g, edge)
                  /\ contains_edge(g, edge) <=> edge \in live_edges
            /\ SumOfLengths(g.variable_neighbors) = number_of_edges(g)
            /\ SumOfLengths(g.constraint_neighbors) = number_of_edges(g)

\* a graph that holds two edges after an edge of it was removed, which left
\* variable 1 without a neighbour
C10_Witness ==
    /\ pc[1] = "manual"
    /\ last_step[1].kind = "remove_edge"
    /\ last_step[1].returned = << TRUE >>
    /\ number_of_edges(graph[1]) = 2
    /\ number_of_variables(graph[1]) = 2
    /\ variable_degree_of(graph[1], 1) = 0

(***************************************************************************)
(* The claims about insert_edge and remove_edge (SpecGraph).               *)
(***************************************************************************)
\* the neighbour set of a variable / constraint label, empty for a label
\* the graph does not have yet
variable_neighbors_of(g, v) ==
    IF v < number_of_variables(g) THEN g.variable_neighbors[v + 1] ELSE << >>

constraint_neighbors_of(g, c) ==
    IF c < number_of_constraints(g) THEN g.constraint_neighbors[c + 1] ELSE << >>

\* C11: inserting an edge (v, c) that is not in the graph returns true,
\* increases number_of_edges() by exactly one, sets number_of_variables() to
\* max(old count, v + 1) and number_of_constraints() to max(old count,
\* c + 1), gives every newly created intermediate label an empty neighbour
\* set, and leaves every other edge and every other node's neighbour set
\* unchanged.
C11_InsertNewEdge ==
    [][\A edge \in ManualEdges :
          (/\ last_step'[1].kind = "insert_edge"
           /\ ~contains_edge(graph[1], edge)
           /\ InsertEdge(edge)) =>
              LET g == graph[1]
                  h == graph'[1]
              IN  /\ last_step'[1].returned = << TRUE >>
                  /\ number_of_edges(h) = number_of_edges(g) + 1
                  /\ edges(h) = Append(edges(g), edge)
                  /\ number_of_variables(h)
                        = Max({number_of_variables(g), edge.variable + 1})
                  /\ number_of_constraints(h)
                        = Max({number_of_constraints(g), edge.constraint + 1})
                  /\ \A v \in 0..(number_of_variables(h) - 1) :
                        variable_neighbors_of(h, v) =
                            IF v = edge.variable
                            THEN Append(variable_neighbors_of(g, v), edge.constraint)
                            ELSE variable_neighbors_of(g, v)
                  /\ \A c \in 0..(number_of_constraints(h) - 1) :
                        constraint_neighbors_of(h, c) =
                            IF c = edge.constraint
                            THEN Append(constraint_neighbors_of(g, c), edge.variable)
                            ELSE constraint_neighbors_of(g, c)]_vars

\* the edge (1, 1) was inserted into a graph without nodes: the insertion
\* created the labels 0, which have no neighbour
C11_Witness ==
    /\ pc[1] = "manual"
    /\ last_step[1].kind = "insert_edge"
    /\ last_step[1].returned = << TRUE >>
    /\ edges(graph[1]) = << Edge(1, 1) >>
    /\ number_of_variables(graph[1]) = 2
    /\ number_of_constraints(graph[1]) = 2
    /\ variable_degree_of(graph[1], 0) = 0
    /\ constraint_degree_of(graph[1], 0) = 0

\* C12: inserting an edge that is already in the graph returns false and
\* changes nothing: the edge set, both neighbour sequences,
\* number_of_edges(), number_of_variables() and number_of_constraints() are
\* unchanged.
C12_InsertPresentEdge ==
    [][\A edge \in ManualEdges :
          (/\ last_step'[1].kind = "insert_edge"
           /\ contains_edge(graph[1], edge)
           /\ InsertEdge(edge)) =>
              /\ last_step'[1].returned = << FALSE >>
              /\ graph'[1] = graph[1]
              /\ number_of_edges(graph'[1]) = number_of_edges(graph[1])
              /\ number_of_variables(graph'[1]) = number_of_variables(graph[1])
              /\ number_of_constraints(graph'[1])
                    = number_of_constraints(graph[1])]_vars

\* an edge of a graph of two edges was inserted again
C12_Witness ==
    /\ pc[1] = "manual"
    /\ last_step[1].kind = "insert_edge"
    /\ last_step[1].returned = << FALSE >>
    /\ number_of_edges(graph[1]) = 2
    /\ Cardinality(live_edges) = 2

\* C13: removing an edge (v, c) that is in the graph returns true, decreases
\* number_of_edges() by exactly one, removes c from the neighbours of v and
\* v from the neighbours of c, and leaves number_of_variables(),
\* number_of_constraints() and every other edge unchanged.
C13_RemovePresentEdge ==
    [][\A edge \in ManualEdges :
          (/\ last_step'[1].kind = "remove_edge"
           /\ contains_edge(graph[1], edge)
           /\ RemoveEdge(edge)) =>
              LET g == graph[1]
                  h == graph'[1]
              IN  /\ last_step'[1].returned = << TRUE >>
                  /\ pc'[1] = "manual"
                  /\ number_of_edges(h) = number_of_edges(g) - 1
                  /\ ~contains_edge(h, edge)
                  /\ number_of_variables(h) = number_of_variables(g)
                  /\ number_of_constraints(h) = number_of_constraints(g)
                  /\ Range(h.variable_neighbors[edge.variable + 1])
                        = Range(g.variable_neighbors[edge.variable + 1])
                             \ {edge.constraint}
                  /\ Range(h.constraint_neighbors[edge.constraint + 1])
                        = Range(g.constraint_neighbors[edge.constraint + 1])
                             \ {edge.variable}
                  /\ \A other \in ManualEdges \ {edge} :
                        /\ contains_edge(h, other) <=> contains_edge(g, other)
                        /\ InVariableNeighbors(h, other)
                              <=> InVariableNeighbors(g, other)
                        /\ InConstraintNeighbors(h, other)
                              <=> InConstraintNeighbors(g, other)]_vars

\* the first of three edges was removed: the last one took its place in the
\* enumeration and the two others are still there
C13_Witness ==
    /\ pc[1] = "manual"
    /\ last_step[1].kind = "remove_edge"
    /\ last_step[1].returned = << TRUE >>
    /\ edges(graph[1]) = << Edge(1, 1), Edge(0, 1) >>
    /\ Edge(0, 0) \notin live_edges
    /\ constraint_degree_of(graph[1], 0) = 0

\* C14: removing an edge that is not in the graph returns false and changes
\* nothing, whatever the edge: its labels may be greater than or equal to
\* the node counts (no indexing fault is reached), and it may be an edge
\* that was inserted and has been removed.
C14_RemoveAbsentEdge ==
    [][\A edge \in ManualEdges :
          (/\ last_step'[1].kind = "remove_edge"
           /\ ~contains_edge(graph[1], edge)
           /\ RemoveEdge(edge)) =>
              /\ last_step'[1].returned = << FALSE >>
              /\ pc'[1] = "manual"
              /\ graph'[1] = graph[1]]_vars

\* the graph of the single edge (0, 0) was asked to remove another edge,
\* every one of which has a label that is not below the node counts
C14_Witness ==
    /\ pc[1] = "manual"
    /\ last_step[1].kind = "remove_edge"
    /\ last_step[1].returned = << FALSE >>
    /\ edges(graph[1]) = << Edge(0, 0) >>
    /\ number_of_variables(graph[1]) = 1
    /\ number_of_constraints(graph[1]) = 1

\* C15: over any sequence of insert and remove operations on a graph
\* created empty, number_of_variables() is 0 if no edge was ever inserted
\* and otherwise one more than the largest variable label ever inserted,
\* likewise number_of_constraints(); no operation reduces either count.
C15_NodeCounts ==
    /\ [](pc[1] = "manual" =>
            /\ number_of_variables(graph[1])
                  = IF largest_inserted = << >> THEN 0
                    ELSE largest_inserted[1].variable + 1
            /\ number_of_constraints(graph[1])
                  = IF largest_inserted = << >> THEN 0
                    ELSE largest_inserted[1].constraint + 1)
    /\ [][/\ number_of_variables(graph'[1]) >= number_of_variables(graph[1])
          /\ number_of_constraints(graph'[1])
                >= number_of_constraints(graph[1])]_vars

\* the only edge of a graph, which had the largest labels, was removed: the
\* graph has no edge and still two variables and two constraints
C15_Witness ==
    /\ pc[1] = "manual"
    /\ last_step[1].kind = "remove_edge"
    /\ last_step[1].returned = << TRUE >>
    /\ number_of_edges(graph[1]) = 0
    /\ largest_inserted = << Edge(1, 1) >>
    /\ number_of_variables(graph[1]) = 2
    /\ number_of_constraints(graph[1]) = 2

(***************************************************************************)
(* The graph during a sampling call (Spec).                                *)
(***************************************************************************)
\* C16: throughout a sampling call and in the returned graph,
\* number_of_variables() and number_of_constraints() of the graph are the
\* counts the Sampler declares: the graph starts with those counts and no
\* edge, and every queued candidate and every edge of the graph (inserted
\* directly or by a swap) has its variable below number_of_variables and
\* its constraint below number_of_constraints, so that no insertion grows a
\* neighbour sequence.
C16_PreSized ==
    /\ [](\A c \in Calls :
            (pc[c] \in {"loop", "done"} /\ sampler # << >>) =>
                LET nv == Sampler_number_of_variables(sampler[1])
                    nc == Sampler_number_of_constraints(sampler[1])
                IN  /\ number_of_variables(graph[c]) = nv
                    /\ number_of_constraints(graph[c]) = nc
                    /\ \A i \in 1..Len(candidate_edges[c]) :
                          /\ candidate_edges[c][i].variable < nv
                          /\ candidate_edges[c][i].constraint < nc
                    /\ \A i \in 1..Len(edges(graph[c])) :
                          /\ edges(graph[c])[i].variable < nv
                          /\ edges(graph[c])[i].constraint < nc)
    /\ [][(pc[1] = "start" /\ pc'[1] = "loop") =>
              number_of_edges(graph'[1]) = 0]_vars

\* a call on 3 variables and no constraint returned: its graph has 3
\* variables without neighbour
C16_Witness ==
    /\ pc[1] = "done"
    /\ sampler # << >>
    /\ Sampler_number_of_variables(sampler[1]) = 3
    /\ Sampler_number_of_constraints(sampler[1]) = 0
    /\ number_of_variables(graph[1]) = 3
    /\ number_of_constraints(graph[1]) = 0
    /\ \A v \in 0..2 : variable_degree_of(graph[1], v) = 0

(***************************************************************************)
(* SpecInterleaved: two calls of sample_with on the same Sampler (given by *)
(* a scaling factor), each with its own random source, run as two          *)
(* processes whose steps interleave.                                       *)
(***************************************************************************)
InterleavedScaledSamplers ==
    {s \in SmallScaledSamplers :
        /\ Sampler_number_of_variables(s) <= MaxInterleavedNodes
        /\ Sampler_number_of_constraints(s) <= MaxInterleavedNodes
        /\ Sampler_number_of_edges(s) <= MaxInterleavedEdges}

InitInterleaved ==
    /\ Idle
    /\ result = << >>
    /\ builder = Builder_default
    /\ sampler \in {<< s >> : s \in InterleavedScaledSamplers}
    /\ pc = [c \in Calls |-> "start"]

NextInterleaved ==
    \/ \E c \in Calls : StartSample(c)
    \/ \E c \in Calls : Iterate(c)
    \/ \E c \in Calls : ReturnGraph(c)

SpecInterleaved == InitInterleaved /\ [][NextInterleaved]_vars

\* more iterations than a call that returns ever makes
MaxAloneIterations == MaxInterleavedEdges * MaxInterleavedEdges

\* the queue, the graph and the last step of a call after at most n more
\* iterations of its loop, made without any step of another call
RECURSIVE RunAlone(_, _)
RunAlone(state, n) ==
    IF n = 0 \/ state.candidate_edges = << >>
    THEN state
    ELSE CHOOSE final \in
             {RunAlone(after, n - 1) :
                 after \in {generate_iteration(state.candidate_edges,
                                               state.graph)}} : TRUE

\* a call at position p has returned, or returns when it runs alone from
\* where it is: ran is where it is after MaxAloneIterations iterations
Settled(p, ran) ==
    \/ p = "done"
    \/ p = "loop" /\ ran.candidate_edges = << >>

\* the graph such a call has returned, or returns when it runs alone
Final(p, state, ran) == IF p = "done" THEN state.graph ELSE ran.graph

\* the queue, the graph and the last step of call c
Own(c) ==
    [candidate_edges |-> candidate_edges[c], graph |-> graph[c],
     step |-> last_step[c]]

\* what call c owns
Owned(c) == << Own(c), pc[c] >>

\* call c leaves Sample::from_sampler_and_rng and enters its loop
Started(c) == pc[c] = "start" /\ pc'[c] = "loop"

\* C17: two calls of sample_with on the same Sampler, run as interleaved
\* processes, do not interfere: a step of one call leaves the queue, the
\* graph and the position of the other as they are; under every
\* interleaving, the graph a call returns when it runs alone from where it
\* is stays the same after every step, up to its return; and no step of a
\* call changes the Sampler.
C17_NoInterference ==
    [][/\ \A c \in Calls :
             (Started(c) \/ Iterate(c) \/ ReturnGraph(c)) =>
                 /\ sampler' = sampler
                 /\ \A d \in Calls \ {c} : Owned(d)' = Owned(d)
       /\ \A c \in Calls :
             \A now \in {Own(c)}, next \in {Own(c)'} :
                 \/ next = now /\ pc'[c] = pc[c]
                 \/ \A ran \in {RunAlone(now, MaxAloneIterations)} :
                       Settled(pc[c], ran) =>
                           \A ran_next \in {RunAlone(next, MaxAloneIterations)} :
                               /\ Settled(pc'[c], ran_next)
                               /\ Final(pc'[c], next, ran_next)
                                     = Final(pc[c], now, ran)]_vars

\* call 1 has returned a graph of 4 edges while call 2, which has just
\* swapped a colliding candidate in, still has a candidate to place
C17_Witness ==
    /\ pc[1] = "done"
    /\ number_of_edges(graph[1]) = 4
    /\ pc[2] = "loop"
    /\ last_step[2].kind = "swap"
    /\ number_of_edges(graph[2]) = 3
    /\ Len(candidate_edges[2]) = 1

(***************************************************************************)
(* The placement loop (Spec).                                              *)
(***************************************************************************)
\* the number of queued candidates of the variable v / of the constraint c
QueuedOfVariable(queue, v) ==
    Cardinality({i \in 1..Len(queue) : queue[i].variable = v})

QueuedOfConstraint(queue, c) ==
    Cardinality({i \in 1..Len(queue) : queue[i].constraint = c})

\* C18: stub conservation.  At the start of the loop of a valid Sampler's
\* call and after every iteration (direct insert, swap or requeue), the
\* degree of every variable plus the number of queued candidates of that
\* variable is variable_degree, and the degree of every constraint plus
\* the number of queued candidates of that constraint is
\* constraint_degree; hence number_of_edges() plus the length of the queue
\* is the number of edges of the Sampler, and no node exceeds its target
\* degree.
C18_StubConservation ==
    (pc[1] \in {"loop", "done"} /\ sampler # << >> /\ Balanced(sampler[1])) =>
        LET s == sampler[1]
            g == graph[1]
            queue == candidate_edges[1]
        IN  /\ \A v \in VariableLabels(s) :
                  /\ variable_degree_of(g, v) + QueuedOfVariable(queue, v)
                        = Sampler_variable_degree(s)
                  /\ variable_degree_of(g, v) <= Sampler_variable_degree(s)
            /\ \A c \in ConstraintLabels(s) :
                  /\ constraint_degree_of(g, c) + QueuedOfConstraint(queue, c)
                        = Sampler_constraint_degree(s)
                  /\ constraint_degree_of(g, c) <= Sampler_constraint_degree(s)
            /\ number_of_edges(g) + Len(queue)
                  = Sampler_variable_degree(s) * Sampler_number_of_variables(s)
            /\ IsScaled(s) =>
                  number_of_edges(g) + Len(queue) = Sampler_number_of_edges(s)

\* a call that has just pushed a colliding candidate back: its graph has 2
\* of the 6 edges and the 4 other stubs of each side are in the queue
C18_Witness ==
    /\ pc[1] = "loop"
    /\ sampler # << >>
    /\ Balanced(sampler[1])
    /\ last_step[1].kind = "requeue"
    /\ number_of_edges(graph[1]) = 2
    /\ Len(candidate_edges[1]) = 4

\* C19: when a candidate (v, c) collides with an edge of the graph and a
\* swap partner e = (ev, ec) is found, the step removes e and inserts
\* (v, ec) and (ev, c): number_of_edges() increases by exactly one, the
\* degrees of v and of c each increase by exactly one, the degree of every
\* other node (ev and ec included) is unchanged, and the candidate is
\* consumed (not pushed back).
C19_SwapStep ==
    [][(Iterate(1) /\ last_step'[1].kind = "swap") =>
          LET g == graph[1]
              h == graph'[1]
              edge == Head(candidate_edges[1])
              e == last_step'[1].edge_to_swap[1]
          IN  /\ last_step'[1].edge = << edge >>
              /\ contains_edge(g, edge)
              /\ contains_edge(g, e)
              /\ e.variable # edge.variable
              /\ e.constraint # edge.constraint
              /\ last_step'[1].returned = << TRUE, TRUE, TRUE >>
              /\ Range(edges(h)) =
                    (Range(edges(g)) \ {e})
                        \cup {Edge(edge.variable, e.constraint),
                              Edge(e.variable, edge.constraint)}
              /\ number_of_edges(h) = number_of_edges(g) + 1
              /\ number_of_variables(h) = number_of_variables(g)
              /\ number_of_constraints(h) = number_of_constraints(g)
              /\ \A v \in 0..(number_of_variables(g) - 1) :
                    variable_degree_of(h, v) =
                        variable_degree_of(g, v)
                            + (IF v = edge.variable THEN 1 ELSE 0)
              /\ \A c \in 0..(number_of_constraints(g) - 1) :
                    constraint_degree_of(h, c) =
                        constraint_degree_of(g, c)
                            + (IF c = edge.constraint THEN 1 ELSE 0)
              /\ candidate_edges'[1] = Tail(candidate_edges[1])]_vars

\* a call swapped a colliding candidate into a graph of 4 edges and still
\* has a candidate to place
C19_Witness ==
    /\ pc[1] = "loop"
    /\ last_step[1].kind = "swap"
    /\ last_step[1].returned = << TRUE, TRUE, TRUE >>
    /\ number_of_edges(graph[1]) = 5
    /\ Len(candidate_edges[1]) = 1

\* the swap of the edge es[i] with the target gives two edges that are
\* both absent from the graph
Fits(g, target, i) ==
    /\ ~contains_edge(g, Edge(edges(g)[i].variable, target.constraint))
    /\ ~contains_edge(g, Edge(target.variable, edges(g)[i].constraint))

\* the enumeration after the entry i was removed (the last entry takes its
\* place) and the two edges were inserted
SwapRemoved(es, i, first, second) ==
    LET n == Len(es)
        kept == IF n = 1 THEN << >>
                ELSE [k \in 1..(n - 1) |-> IF k = i THEN es[n] ELSE es[k]]
    IN  kept \o << first, second >>

\* C20: the swap partner chosen for a colliding candidate (v, c) is the
\* first edge e = (ev, ec) of the graph's enumeration such that neither
\* (ev, c) nor (v, ec) is in the graph: the chosen edge fits and no edge
\* before it does; a candidate is pushed back only when no edge fits.  The
\* enumeration is the one the insertions and removals of the graph have
\* produced: a removal moves the last edge to the place of the removed one
\* and an insertion appends.
C20_FirstFit ==
    [][(Iterate(1) /\ contains_edge(graph[1], Head(candidate_edges[1]))) =>
          LET g == graph[1]
              es == edges(g)
              target == Head(candidate_edges[1])
              chosen == last_step'[1].edge_to_swap
          IN  IF chosen = << >>
              THEN /\ last_step'[1].kind = "requeue"
                   /\ \A i \in 1..Len(es) : ~Fits(g, target, i)
              ELSE /\ last_step'[1].kind = "swap"
                   /\ \E i \in 1..Len(es) :
                         /\ es[i] = chosen[1]
                         /\ Fits(g, target, i)
                         /\ \A j \in 1..(i - 1) : ~Fits(g, target, j)
                         /\ edges(graph'[1]) =
                               SwapRemoved(es, i,
                                   Edge(target.variable, chosen[1].constraint),
                                   Edge(chosen[1].variable, target.constraint))]_vars

\* the candidate (1, 2) collided in the graph that enumerated (0, 0),
\* (1, 2), (0, 1), (1, 0): the first two edges do not fit, the third was
\* chosen, the last took its place and the two swapped edges were appended
C20_Witness ==
    /\ pc[1] = "loop"
    /\ last_step[1].kind = "swap"
    /\ last_step[1].edge = << Edge(1, 2) >>
    /\ last_step[1].edge_to_swap = << Edge(0, 1) >>
    /\ edges(graph[1]) =
          << Edge(0, 0), Edge(1, 2), Edge(1, 0), Edge(1, 1), Edge(0, 2) >>
    /\ candidate_edges[1] = << Edge(0, 1) >>

\* C21: when a candidate collides and no swap partner exists, the graph is
\* left as it is and the candidate is appended at the back of the queue,
\* behind all other pending candidates, whose order is unchanged.  Every
\* iteration pops the front of the queue and appends at most the popped
\* candidate, so a candidate pushed back is retried only after every
\* candidate that was ahead of it has been processed once.
C21_Requeue ==
    [][Iterate(1) =>
          LET queue == candidate_edges[1]
              g == graph[1]
          IN  /\ last_step'[1].edge = << Head(queue) >>
              /\ \/ candidate_edges'[1] = Tail(queue)
                 \/ /\ candidate_edges'[1] = Append(Tail(queue), Head(queue))
                    /\ last_step'[1].kind = "requeue"
              /\ last_step'[1].kind = "requeue" <=>
                    /\ contains_edge(g, Head(queue))
                    /\ \A i \in 1..Len(edges(g)) : ~Fits(g, Head(queue), i)
              /\ last_step'[1].kind = "requeue" =>
                    /\ graph'[1] = g
                    /\ candidate_edges'[1] = Append(Tail(queue), Head(queue))]_vars

\* a valid Sampler's call has just pushed a colliding candidate back behind
\* two other pending candidates, the first of which is another edge
C21_Witness ==
    /\ pc[1] = "loop"
    /\ sampler # << >>
    /\ Balanced(sampler[1])
    /\ last_step[1].kind = "requeue"
    /\ Len(candidate_edges[1]) = 3
    /\ candidate_edges[1][3] = last_step[1].edge[1]
    /\ candidate_edges[1][1] # last_step[1].edge[1]
    /\ number_of_edges(graph[1]) = 3

\* the first components / the second components of a queue
VariablesOf(queue) ==
    IF queue = << >> THEN << >>
    ELSE [i \in 1..Len(queue) |-> queue[i].variable]

ConstraintsOf(queue) ==
    IF queue = << >> THEN << >>
    ELSE [i \in 1..Len(queue) |-> queue[i].constraint]

\* the number of edges of a Sampler: number_of_edges() of a Sampler given
\* by a scaling factor, variable_degree * number_of_variables otherwise
EdgesOf(s) ==
    IF IsScaled(s) THEN Sampler_number_of_edges(s)
    ELSE Sampler_variable_degree(s) * Sampler_number_of_variables(s)

\* C22: stub construction.  For every valid Sampler, before shuffling the
\* variable stub sequence contains each label in 0..number_of_variables
\* exactly variable_degree times and the constraint stub sequence contains
\* each label in 0..number_of_constraints exactly constraint_degree times;
\* both have length number_of_edges(), so the pairing drops no stub: when a
\* call enters its loop the queue holds number_of_edges() candidates, whose
\* variables are a rearrangement of the variable stubs and whose
\* constraints are a rearrangement of the constraint stubs.
C22_StubConstruction ==
    (sampler # << >> /\ Balanced(sampler[1])) =>
        LET s == sampler[1]
            vs == variable_stubs(s)
            cs == constraint_stubs(s)
        IN  /\ Range(vs) \subseteq VariableLabels(s)
            /\ \A v \in VariableLabels(s) :
                  Count(vs, v) = Sampler_variable_degree(s)
            /\ Range(cs) \subseteq ConstraintLabels(s)
            /\ \A c \in ConstraintLabels(s) :
                  Count(cs, c) = Sampler_constraint_degree(s)
            /\ Len(vs) = EdgesOf(s)
            /\ Len(cs) = EdgesOf(s)
            /\ (pc[1] = "loop" /\ last_step[1] = NoStep) =>
                  /\ Len(candidate_edges[1]) = EdgesOf(s)
                  /\ number_of_edges(graph[1]) = 0
                  /\ \A v \in VariableLabels(s) :
                        Count(VariablesOf(candidate_edges[1]), v) = Count(vs, v)
                  /\ \A c \in ConstraintLabels(s) :
                        Count(ConstraintsOf(candidate_edges[1]), c) = Count(cs, c)

\* a call on 3 variables of degree 2 and 2 constraints of degree 3 enters
\* its loop with 6 candidates, which are not in the order of the stubs
C22_Witness ==
    /\ pc[1] = "loop"
    /\ last_step[1] = NoStep
    /\ sampler # << >>
    /\ Sampler_number_of_variables(sampler[1]) = 3
    /\ Sampler_variable_degree(sampler[1]) = 2
    /\ Sampler_number_of_constraints(sampler[1]) = 2
    /\ Len(candidate_edges[1]) = 6
    /\ candidate_edges[1][1] = Edge(2, 1)
    /\ candidate_edges[1][6] = Edge(0, 0)

\* a simple graph with the degrees of the Sampler exists
Feasible(s) ==
    /\ Balanced(s)
    /\ Sampler_variable_degree(s) <= Sampler_number_of_constraints(s)
    /\ Sampler_constraint_degree(s) <= Sampler_number_of_variables(s)

\* the candidate can be placed now: it is absent from the graph, or an edge
\* to swap it with is found
Placeable(g, edge) ==
    \/ ~contains_edge(g, edge)
    \/ find_edge_to_swap(edge, g) # << >>

\* C23: when variable_degree <= number_of_constraints and
\* constraint_degree <= number_of_variables, no reachable state of the
\* placement loop is stuck: whenever the queue is not empty, at least one
\* queued candidate is absent from the graph or has a swap partner; and
\* every run reaches an empty queue: from a queue of n candidates, within
\* n * n iterations.
C23_NeverStuck ==
    (pc[1] = "loop" /\ sampler # << >> /\ Feasible(sampler[1])
        /\ candidate_edges[1] # << >>) =>
        LET queue == candidate_edges[1]
        IN  /\ \E i \in 1..Len(queue) : Placeable(graph[1], queue[i])
            /\ RunAlone(Own(1), Len(queue) * Len(queue)).candidate_edges = << >>

\* a call on a Sampler of which a simple graph exists has pushed back a
\* candidate, which is the last of the queue and cannot be placed now,
\* while the first of the queue can
C23_Witness ==
    /\ pc[1] = "loop"
    /\ sampler # << >>
    /\ Feasible(sampler[1])
    /\ last_step[1].kind = "requeue"
    /\ Len(candidate_edges[1]) >= 3
    /\ candidate_edges[1][Len(candidate_edges[1])] = last_step[1].edge[1]
    /\ ~Placeable(graph[1], last_step[1].edge[1])
    /\ Placeable(graph[1], candidate_edges[1][1])

\* C24: whenever a swap is performed for a colliding candidate (v, c) with
\* the partner (ev, ec): ev # v and ec # c, the partner is not the
\* colliding edge, the removal of the partner returns true and both
\* insertions return true (the two swapped edges differ and each is absent
\* from the graph when it is inserted), and (v, c) is still in the graph
\* after the swap.
C24_SwapIsSound ==
    [][(Iterate(1) /\ last_step'[1].kind = "swap") =>
          LET g == graph[1]
              edge == last_step'[1].edge[1]
              e == last_step'[1].edge_to_swap[1]
              first == Edge(edge.variable, e.constraint)
              second == Edge(e.variable, edge.constraint)
              left == Range(edges(g)) \ {e}
          IN  /\ contains_edge(g, edge)
              /\ contains_edge(g, e)
              /\ e # edge
              /\ e.variable # edge.variable
              /\ e.constraint # edge.constraint
              /\ last_step'[1].returned[1] = TRUE
              /\ last_step'[1].returned[2] = TRUE
              /\ last_step'[1].returned[3] = TRUE
              /\ first # second
              /\ first \notin left
              /\ second \notin left \cup {first}
              /\ contains_edge(graph'[1], edge)
              /\ contains_edge(graph'[1], first)
              /\ contains_edge(graph'[1], second)
              /\ ~contains_edge(graph'[1], e)]_vars

\* the smallest swap: the candidate collided in a graph of two edges, the
\* other edge was its partner, and the graph now holds the candidate's edge
\* and the two swapped edges
C24_Witness ==
    /\ last_step[1].kind = "swap"
    /\ number_of_edges(graph[1]) = 3
    /\ contains_edge(graph[1], last_step[1].edge[1])
    /\ ~contains_edge(graph[1], last_step[1].edge_to_swap[1])
    /\ contains_edge(graph[1], Edge(last_step[1].edge[1].variable,
                                    last_step[1].edge_to_swap[1].constraint))
    /\ contains_edge(graph[1], Edge(last_step[1].edge_to_swap[1].variable,
                                    last_step[1].edge[1].constraint))

(***************************************************************************)
(* The arithmetic of the balance check (SpecBuild).                        *)
(***************************************************************************)
\* C25: the balance check of build() is exact for all machine-word inputs:
\* with the two products computed in words of WordBits bits, build() never
\* yields a Sampler for four values whose exact products number_of_variables
\* * variable_degree and number_of_constraints * constraint_degree differ,
\* and it never aborts instead of returning a result.
C25_BalanceCheckExact ==
    result # << >> =>
        /\ result[1].tag # "Panic"
        /\ result[1].tag = "Ok" =>
              /\ builder.number_of_variables * builder.variable_degree
                    = builder.number_of_constraints * builder.constraint_degree
              /\ sampler # << >>
              /\ sampler[1].number_of_variables * sampler[1].variable_degree
                    = sampler[1].number_of_constraints
                         * sampler[1].constraint_degree

====
